---- MODULE Spec2Model ----
(***************************************************************************)
(* Model of backend/app.py: the ingest / list / score handlers over the    *)
(* in-memory store (_by_id, _ids_by_vin) and over the relational store     *)
(* (tables vehicles, listings, scores and the view v_latest_scores).       *)
(*                                                                         *)
(* Representation                                                          *)
(*   - a Python str that the code edits (vin, make, model, trim, id) is a  *)
(*     sequence of one-character strings; reason codes are atomic strings; *)
(*   - an Optional value is a sequence of length 0 (None) or 1;            *)
(*   - a float amount of money is an integer number of cents, and the      *)
(*     score arithmetic is exact rational arithmetic over the common       *)
(*     denominator ScoreDen;                                               *)
(*   - _by_id (an insertion-ordered dict keyed by listing id) is the       *)
(*     sequence of its values in key order; the key of a value is its id.  *)
(***************************************************************************)
EXTENDS Integers, Sequences, FiniteSets, TLC

(***************************************************************************)
(* Bounds of the model.                                                    *)
(***************************************************************************)
MaxCalls == 3
MaxItems == 3

(***************************************************************************)
(* Generic helpers.                                                        *)
(***************************************************************************)
None == <<>>
Some(v) == <<v>>
IsNone(o) == Len(o) = 0
Val(o) == o[1]

Max2(a, b) == IF a >= b THEN a ELSE b
Min2(a, b) == IF a <= b THEN a ELSE b

SeqsUpTo(S, n) == UNION {[1..k -> S] : k \in 0..n}
Range(s) == {s[i] : i \in 1..Len(s)}

(***************************************************************************)
(* str.strip() and str.upper() on character sequences.                     *)
(***************************************************************************)
IsSpace(c) == c \in {" ", "\t", "\n"}

RECURSIVE LStrip(_)
LStrip(s) == IF Len(s) > 0 /\ IsSpace(s[1]) THEN LStrip(Tail(s)) ELSE s

RECURSIVE RStrip(_)
RStrip(s) ==
    IF Len(s) > 0 /\ IsSpace(s[Len(s)]) THEN RStrip(SubSeq(s, 1, Len(s) - 1)) ELSE s

Strip(s) == RStrip(LStrip(s))

\* Variant of UpperChar that swaps the case (str.swapcase).
SwapCaseChar(c) ==
    CASE c = "x" -> "X"
      [] c = "y" -> "Y"
      [] c = "a" -> "A"
      [] c = "b" -> "B"
      [] c = "X" -> "x"
      [] c = "Y" -> "y"
      [] c = "A" -> "a"
      [] c = "B" -> "b"
      [] OTHER -> c

UpperChar(c) ==
    CASE c = "x" -> "X"
      [] c = "y" -> "Y"
      [] c = "a" -> "A"
      [] c = "b" -> "B"
      [] OTHER -> c

Upper(s) == [i \in 1..Len(s) |-> UpperChar(s[i])]

\* Variant of VinKey that forgets upper().
VinKeyNoUpper(vin) == Strip(vin)

\* vin_key = (item.vin or "").strip().upper()
VinKey(vin) == Upper(Strip(vin))

(***************************************************************************)
(* score(): the heuristic of one item, lines 284-306.  price is in cents;  *)
(* every real quantity q of the code is held as the integer q * ScoreDen.  *)
(* The prices of the model avoid the ties of round(x, 2), where the binary *)
(* error of the float product decides the cent.                            *)
(***************************************************************************)
DomWindow == 30
MilesWindow == 100000
PriceBaseline == 25000
MaxBoost == 20
MaxScore == 100
AgedDom == 45
LowDomBelow == 20
LowMilesBelow == 50000
ScoreDen == DomWindow * MilesWindow

\* int(x) of Python for the rational n / d, d > 0: truncation toward zero.
PyInt(n, d) == IF n >= 0 THEN n \div d ELSE -((-n) \div d)

\* round(n / d) to the nearest integer, ties to the even one, d > 0.
RoundHalfEven(n, d) ==
    LET q == n \div d
        r == n - q * d
    IN  IF 2 * r < d THEN q
        ELSE IF 2 * r > d THEN q + 1
        ELSE IF q % 2 = 0 THEN q ELSE q + 1

\* 40 * dom_penalty + 40 * miles_penalty, times ScoreDen
base(item) ==
    40 * Max2(0, DomWindow - item.dom) * MilesWindow
  + 40 * Max2(0, MilesWindow - item.miles) * DomWindow

\* price_boost times ScoreDen: (25000 - price) / 1000 with price = cents / 100
price_boost(item) ==
    IF item.price < PriceBaseline * 100
    THEN Min2(MaxBoost * ScoreDen,
              (PriceBaseline * 100 - item.price) * (ScoreDen \div 100000))
    ELSE 0

\* Variant of clamped that forgets the upper bound.
clamped_no_min(item) == Max2(0, base(item) + price_boost(item))

\* The real-valued total max(0, min(100, base + price_boost)), times ScoreDen
clamped(item) == Max2(0, Min2(MaxScore * ScoreDen, base(item) + price_boost(item)))

\* Variant of score_val that rounds to the nearest integer.
score_val_nearest(item) == RoundHalfEven(clamped(item), ScoreDen)

\* score_val = int(max(0, min(100, base + price_boost)))
score_val(item) == PyInt(clamped(item), ScoreDen)

\* reasons, in the order of the appends (lines 292-298, 304-306)
reasons(item) ==
    (IF item.price < PriceBaseline * 100 THEN <<"PriceVsBaseline">> ELSE <<>>)
    \o (IF item.dom < LowDomBelow THEN <<"LowDOM">> ELSE <<>>)
    \o (IF item.miles < LowMilesBelow THEN <<"LowMiles">> ELSE <<>>)
    \o (IF item.dom > AgedDom THEN <<"AgedInventory">> ELSE <<>>)

\* Variant of reasons_or_default that forgets the sentinel.
reasons_no_default(item) == reasons(item)

\* reasons or ["Heuristic"]
reasons_or_default(item) ==
    IF Len(reasons(item)) = 0 THEN <<"Heuristic">> ELSE reasons(item)

\* Variant of buy_max where the aged discount applies on top of the 1.03.
buy_max_stacked(item) ==
    IF item.dom > AgedDom
    THEN RoundHalfEven(RoundHalfEven(item.price * 103, 100) * 98, 100)
    ELSE Max2(0, RoundHalfEven(item.price * 103, 100))

\* round(buy_max, 2) in cents: buy_max = max(0.0, price * 1.03), replaced by
\* price * 0.98 when dom > 45
buy_max(item) ==
    IF item.dom > AgedDom
    THEN RoundHalfEven(item.price * 98, 100)
    ELSE Max2(0, RoundHalfEven(item.price * 103, 100))

\* The ScoreResponse of one item (line 332); vin is echoed verbatim.
ScoreResponse(item) ==
    [vin |-> item.vin, score |-> score_val(item), buyMax |-> buy_max(item),
     reasonCodes |-> reasons_or_default(item)]

(***************************************************************************)
(* Inputs of the handlers.                                                 *)
(***************************************************************************)
\* Request items of POST /ingest (StoredListing, lines 43-58).  year, miles,
\* price, dom, source and created_at are carried through verbatim by ingest
\* and are left out.  radius is Optional[int] without a range (line 55).
RawListings ==
    { [id |-> <<"a">>, vin |-> <<"X", "1">>, make |-> <<" ", "F", " ">>,
       model |-> <<"M">>, trim |-> None, radius |-> None,
       score |-> None, buyMax |-> None, reasonCodes |-> <<>>],
      [id |-> <<"b">>, vin |-> <<" ", "x", "1", " ">>, make |-> <<"F">>,
       model |-> <<"M", " ">>, trim |-> Some(<<" ", "x", "\t">>), radius |-> Some(0),
       score |-> None, buyMax |-> None, reasonCodes |-> <<>>],
      [id |-> <<"a">>, vin |-> <<"y", "2">>, make |-> <<"F">>,
       model |-> <<"M">>, trim |-> Some(<<>>), radius |-> Some(-5),
       score |-> None, buyMax |-> None, reasonCodes |-> <<>>],
      [id |-> <<"c">>, vin |-> <<"Y", "2">>, make |-> <<"F">>,
       model |-> <<"M">>, trim |-> None, radius |-> Some(10),
       score |-> Some(50), buyMax |-> None, reasonCodes |-> <<>>] }

\* Request items of POST /score (Listing, lines 29-34); price in cents.
\* source is not read by score and is left out.
ScoreItems ==
    { [vin |-> <<" ", "x", "1", " ">>, price |-> 2000000, miles |-> 30000, dom |-> 10],
      [vin |-> <<"X", "1">>, price |-> 1000000, miles |-> 60000, dom |-> 50],
      [vin |-> <<"Y", "2">>, price |-> 3000000, miles |-> 120000, dom |-> 30],
      [vin |-> <<"y", "2">>, price |-> -50000, miles |-> -100000, dom |-> -100],
      [vin |-> <<"x", "1">>, price |-> 10000000, miles |-> 0, dom |-> 46],
      [vin |-> <<"Z", "9">>, price |-> 999999, miles |-> 50000, dom |-> 45],
      [vin |-> <<"X", "1">>, price |-> -50000, miles |-> 100000, dom |-> 60] }

(***************************************************************************)
(* State.                                                                  *)
(***************************************************************************)
VARIABLES
    db_enabled,   \* _db_enabled, fixed at import time
    by_id,        \* _by_id: the stored listings, in dict order
    ids_by_vin,   \* _ids_by_vin: canonical VIN -> list of listing ids
    vehicles,     \* table vehicles: vin -> [make, model, trim]
    listings,     \* table listings: rows [id, vin, created_at]
    scores,       \* table scores: rows [vin, score, buy_max, reason_codes, created_at]
    clock,        \* now() of the database, one tick per insert
    lastCall,     \* the last request and its response
    putLog,       \* history: the <<vin, id>> pairs put into the memory store
    lastScoreOf,  \* history: canonical VIN -> result of its latest scored item
    ingestedVins, \* history: the canonical VINs submitted to ingest so far
    calls,        \* number of requests handled
    items         \* number of request items handled

vars == <<db_enabled, by_id, ids_by_vin, vehicles, listings, scores, clock,
          lastCall, putLog, lastScoreOf, ingestedVins, calls, items>>

(***************************************************************************)
(* ingest(): normalization and the two stores.                             *)
(***************************************************************************)
DefaultRadius == 25

\* Lines 188-195 (and 154-161): the normalization of one item.
Normalize(item) ==
    [item EXCEPT
        !.vin = Upper(Strip(item.vin)),
        !.make = Strip(item.make),
        !.model = Strip(item.model),
        !.trim = IF IsNone(item.trim) THEN None ELSE Some(Strip(Val(item.trim))),
        !.radius = IF IsNone(item.radius) \/ Val(item.radius) = 0
                   THEN Some(DefaultRadius) ELSE item.radius]

\* d[key] = value on an insertion-ordered dict: an existing key keeps its
\* position, a new key goes last.
DictSet(d, rec) ==
    IF \E i \in 1..Len(d) : d[i].id = rec.id
    THEN [i \in 1..Len(d) |-> IF d[i].id = rec.id THEN rec ELSE d[i]]
    ELSE Append(d, rec)

\* d.get(key): the stored listing of an id, as an Optional
DictGet(d, id) ==
    IF \E i \in 1..Len(d) : d[i].id = id
    THEN Some(d[CHOOSE i \in 1..Len(d) : d[i].id = id])
    ELSE None

\* _ids_by_vin.get(vin_key, [])
IdsOf(idx, vin) == IF vin \in DOMAIN idx THEN idx[vin] ELSE <<>>

\* Variant of IndexPut that appends without the membership test.
IndexPutAlways(idx, vin, id) ==
    [v \in DOMAIN idx \cup {vin} |->
        IF v = vin THEN Append(IdsOf(idx, vin), id) ELSE idx[v]]

\* Lines 197-199: setdefault, then append the id unless it is listed.
IndexPut(idx, vin, id) ==
    LET cur == IdsOf(idx, vin)
        new == IF id \in Range(cur) THEN cur ELSE Append(cur, id)
    IN  [v \in DOMAIN idx \cup {vin} |-> IF v = vin THEN new ELSE idx[v]]

\* Lines 187-200: the in-memory loop over the batch, from item i on.
RECURSIVE MemIngest(_, _, _)
MemIngest(st, batch, i) ==
    IF i > Len(batch) THEN st
    ELSE LET norm == Normalize(batch[i])
         IN  MemIngest(
                 [by_id |-> DictSet(st.by_id, norm),
                  ids_by_vin |-> IndexPut(st.ids_by_vin, norm.vin, norm.id),
                  putLog |-> Append(st.putLog, <<norm.vin, norm.id>>),
                  out |-> Append(st.out, norm)],
                 batch, i + 1)

\* str(n) for n >= 0, as a character sequence
Digit(n) == <<"0", "1", "2", "3", "4", "5", "6", "7", "8", "9">>[n + 1]

RECURSIVE Str(_)
Str(n) == IF n < 10 THEN <<Digit(n)>> ELSE Str(n \div 10) \o <<Digit(n % 10)>>

\* Lines 163-170: insert into vehicles ... on conflict (vin) do update
VehicleUpsert(tbl, norm) ==
    [v \in DOMAIN tbl \cup {norm.vin} |->
        IF v = norm.vin
        THEN [make |-> norm.make, model |-> norm.model, trim |-> norm.trim]
        ELSE tbl[v]]

\* Lines 172-181: insert into listings ... returning id; id is serial and
\* created_at defaults to now().  The payload column is never read back.
ListingInsert(tbl, norm, now) ==
    Append(tbl, [id |-> Len(tbl) + 1, vin |-> norm.vin, created_at |-> now])

\* Line 178: json.dumps(norm.model_dump()).  model_dump() keeps created_at
\* (line 58, always present through its default_factory) as a datetime, which
\* json.dumps rejects with a TypeError: the arguments of the listings insert
\* are never built, whatever the item.
PayloadSerializable(norm) == FALSE

\* Variant of DbIngest where the statements of an item commit together: the
\* vehicles upsert of the failing item is rolled back with it.
RECURSIVE DbIngestItemAtomic(_, _, _)
DbIngestItemAtomic(st, batch, i) ==
    IF i > Len(batch) THEN st
    ELSE LET norm == Normalize(batch[i])
             rows == ListingInsert(st.listings, norm, st.clock)
         IN  IF ~PayloadSerializable(norm)
             THEN [st EXCEPT !.ok = FALSE, !.out = <<>>]
             ELSE DbIngestItemAtomic(
                      [st EXCEPT
                          !.vehicles = VehicleUpsert(st.vehicles, norm),
                          !.listings = rows,
                          !.clock = st.clock + 1,
                          !.out = Append(st.out,
                                         [norm EXCEPT !.id = Str(rows[Len(rows)].id)])],
                      batch, i + 1)

\* Lines 153-182: the relational loop over the batch, from item i on.  The
\* connection is in autocommit mode (line 76): what a statement wrote stays
\* written when a later line raises.
RECURSIVE DbIngest(_, _, _)
DbIngest(st, batch, i) ==
    IF i > Len(batch) THEN st
    ELSE LET norm == Normalize(batch[i])
             upserted == VehicleUpsert(st.vehicles, norm)
             rows == ListingInsert(st.listings, norm, st.clock)
         IN  IF ~PayloadSerializable(norm)
             THEN [st EXCEPT !.vehicles = upserted, !.ok = FALSE, !.out = <<>>]
             ELSE DbIngest(
                      [st EXCEPT
                          !.vehicles = upserted,
                          !.listings = rows,
                          !.clock = st.clock + 1,
                          !.out = Append(st.out,
                                         [norm EXCEPT !.id = Str(rows[Len(rows)].id)])],
                      batch, i + 1)

\* Variant of Ingest whose relational branch does not return: the in-memory
\* loop runs after it as well.
IngestFallThrough(batch) ==
    /\ calls < MaxCalls
    /\ Len(batch) <= MaxItems - items
    /\ calls' = calls + 1
    /\ items' = items + Len(batch)
    /\ LET m == MemIngest([by_id |-> by_id, ids_by_vin |-> ids_by_vin,
                           putLog |-> putLog, out |-> <<>>], batch, 1)
           d == DbIngest([vehicles |-> vehicles, listings |-> listings,
                          clock |-> clock, ok |-> TRUE, out |-> <<>>], batch, 1)
       IN  /\ by_id' = m.by_id
           /\ ids_by_vin' = m.ids_by_vin
           /\ putLog' = m.putLog
           /\ vehicles' = IF db_enabled THEN d.vehicles ELSE vehicles
           /\ listings' = IF db_enabled THEN d.listings ELSE listings
           /\ clock' = IF db_enabled THEN d.clock ELSE clock
           /\ lastCall' = [op |-> "ingest", ok |-> TRUE, req |-> batch, out |-> m.out]
    /\ ingestedVins' = ingestedVins \cup {VinKey(batch[i].vin) : i \in 1..Len(batch)}
    /\ UNCHANGED <<db_enabled, scores, lastScoreOf>>

Ingest(batch) ==
    /\ calls < MaxCalls
    /\ Len(batch) <= MaxItems - items
    /\ calls' = calls + 1
    /\ items' = items + Len(batch)
    /\ IF db_enabled
       THEN LET r == DbIngest([vehicles |-> vehicles, listings |-> listings,
                               clock |-> clock, ok |-> TRUE, out |-> <<>>], batch, 1)
            IN  /\ vehicles' = r.vehicles
                /\ listings' = r.listings
                /\ clock' = r.clock
                /\ lastCall' = [op |-> "ingest", ok |-> r.ok, req |-> batch, out |-> r.out]
                /\ UNCHANGED <<by_id, ids_by_vin, putLog>>
       ELSE LET r == MemIngest([by_id |-> by_id, ids_by_vin |-> ids_by_vin,
                                putLog |-> putLog, out |-> <<>>], batch, 1)
            IN  /\ by_id' = r.by_id
                /\ ids_by_vin' = r.ids_by_vin
                /\ putLog' = r.putLog
                /\ lastCall' = [op |-> "ingest", ok |-> TRUE, req |-> batch, out |-> r.out]
                /\ UNCHANGED <<vehicles, listings, clock>>
    /\ ingestedVins' = ingestedVins \cup {VinKey(batch[i].vin) : i \in 1..Len(batch)}
    /\ UNCHANGED <<db_enabled, scores, lastScoreOf>>

(***************************************************************************)
(* score(): the store side, lines 308-332.                                 *)
(***************************************************************************)
\* Lines 112-119: what the scores table accepts: vin references
\* vehicles(vin), and check (score between 0 and 100).
ScoreRowAccepted(vtbl, vin_key, resp) ==
    /\ vin_key \in DOMAIN vtbl
    /\ resp.score >= 0
    /\ resp.score <= MaxScore

\* Lines 315-321: insert into scores; created_at defaults to now().
ScoreInsert(tbl, vin_key, resp, now) ==
    Append(tbl, [vin |-> vin_key, score |-> resp.score, buy_max |-> resp.buyMax,
                 reason_codes |-> resp.reasonCodes, created_at |-> now])

\* Lines 324-330: write the result onto every listing indexed under vin_key.
MemRecordScore(d, idx, vin_key, resp) ==
    [i \in 1..Len(d) |->
        IF d[i].id \in Range(IdsOf(idx, vin_key))
        THEN [d[i] EXCEPT !.score = Some(resp.score),
                          !.buyMax = Some(resp.buyMax),
                          !.reasonCodes = resp.reasonCodes]
        ELSE d[i]]

\* History: the result of the latest item scored for a canonical VIN.
Remember(log, vin_key, resp) ==
    [v \in DOMAIN log \cup {vin_key} |->
        IF v = vin_key
        THEN [score |-> resp.score, buyMax |-> resp.buyMax,
              reasonCodes |-> resp.reasonCodes]
        ELSE log[v]]

\* Lines 283-332: the loop over the batch, from item i on, in a process whose
\* _db_enabled is db.  A rejected insert
\* raises out of the handler: the rows of the earlier items stay (autocommit,
\* one connection per item) and no response body is produced.
RECURSIVE ScoreLoopIn(_, _, _, _)
ScoreLoopIn(db, st, batch, i) ==
    IF i > Len(batch) THEN st
    ELSE LET item == batch[i]
             resp == ScoreResponse(item)
             vin_key == VinKey(item.vin)
         IN  IF db /\ ~ScoreRowAccepted(vehicles, vin_key, resp)
             THEN [st EXCEPT !.ok = FALSE, !.out = <<>>]
             ELSE ScoreLoopIn(db,
                      [st EXCEPT
                          !.scores = IF db
                                     THEN ScoreInsert(st.scores, vin_key, resp, st.clock)
                                     ELSE st.scores,
                          !.clock = IF db THEN st.clock + 1 ELSE st.clock,
                          !.by_id = MemRecordScore(st.by_id, ids_by_vin, vin_key, resp),
                          !.lastScoreOf = Remember(st.lastScoreOf, vin_key, resp),
                          !.out = Append(st.out, resp)],
                      batch, i + 1)

\* The loop of the running process: db is _db_enabled.
ScoreLoop(st, batch, i) == ScoreLoopIn(db_enabled, st, batch, i)

Score(batch) ==
    /\ calls < MaxCalls
    /\ Len(batch) <= MaxItems - items
    /\ calls' = calls + 1
    /\ items' = items + Len(batch)
    /\ LET r == ScoreLoop([by_id |-> by_id, scores |-> scores, clock |-> clock,
                           lastScoreOf |-> lastScoreOf, ok |-> TRUE, out |-> <<>>],
                          batch, 1)
       IN  /\ by_id' = r.by_id
           /\ scores' = r.scores
           /\ clock' = r.clock
           /\ lastScoreOf' = r.lastScoreOf
           /\ lastCall' = [op |-> "score", ok |-> r.ok, req |-> batch, out |-> r.out]
    /\ UNCHANGED <<db_enabled, ids_by_vin, vehicles, listings, putLog, ingestedVins>>

(***************************************************************************)
(* list_listings(), lines 205-248.                                         *)
(***************************************************************************)
ListLimit == 500
ListRadius == 25

\* Lines 120-123: v_latest_scores, the newest score row of a VIN, if any.
LatestScore(tbl, vin) ==
    LET mine == {i \in 1..Len(tbl) : tbl[i].vin = vin}
    IN  IF mine = {} THEN None
        ELSE Some(tbl[CHOOSE i \in mine :
                          \A j \in mine : tbl[j].created_at <= tbl[i].created_at])

\* A row created after another comes before it.
Newer(a, b) == a.created_at > b.created_at

\* order by l.created_at desc.  The rows are taken from the last written to
\* the first, so that rows of one created_at come out latest written first.
NewestFirst(tbl) ==
    SortSeq([i \in 1..Len(tbl) |-> tbl[Len(tbl) + 1 - i]], Newer)

\* Lines 226-244: one row of the query as a StoredListing.
ListedRow(l) ==
    LET s == LatestScore(scores, l.vin)
        hasV == l.vin \in DOMAIN vehicles
    IN  [id |-> Str(l.id), vin |-> l.vin,
         make |-> IF hasV THEN vehicles[l.vin].make ELSE <<>>,
         model |-> IF hasV THEN vehicles[l.vin].model ELSE <<>>,
         trim |-> IF hasV THEN vehicles[l.vin].trim ELSE None,
         radius |-> Some(ListRadius),
         score |-> IF IsNone(s) THEN None ELSE Some(Val(s).score),
         buyMax |-> IF IsNone(s) THEN None ELSE Some(Val(s).buy_max),
         reasonCodes |-> IF IsNone(s) THEN <<>> ELSE Val(s).reason_codes]

\* Variant of ListResultIn without the limit of the query.
ListResultNoLimit(db) ==
    IF db
    THEN LET sorted == NewestFirst(listings)
         IN  [i \in 1..Len(sorted) |-> ListedRow(sorted[i])]
    ELSE by_id

\* The value list_listings returns in the current state, in a process whose
\* _db_enabled is db.
ListResultIn(db) ==
    IF db
    THEN LET sorted == NewestFirst(listings)
             page == SubSeq(sorted, 1, Min2(ListLimit, Len(sorted)))
         IN  [i \in 1..Len(page) |-> ListedRow(page[i])]
    ELSE by_id

\* The value list_listings returns in the running process.
ListResult == ListResultIn(db_enabled)

List ==
    /\ calls < MaxCalls
    /\ calls' = calls + 1
    /\ lastCall' = [op |-> "list", ok |-> TRUE, req |-> <<>>, out |-> ListResult]
    /\ UNCHANGED <<db_enabled, by_id, ids_by_vin, vehicles, listings, scores, clock,
                   putLog, lastScoreOf, ingestedVins, items>>

(***************************************************************************)
(* Initial states and the specification.                                   *)
(***************************************************************************)
\* The database outlives the process and the schema is created "if not
\* exists" (lines 95-119): at start the tables are empty or hold rows written
\* before.  Every seed satisfies the foreign keys of the schema.
DbSeeds ==
    { [vehicles |-> <<>>, listings |-> <<>>, scores |-> <<>>, clock |-> 1],
      [vehicles |-> [v \in {<<"X", "1">>, <<"Y", "2">>} |->
                        [make |-> <<"F">>, model |-> <<"M">>, trim |-> None]],
       listings |-> <<[id |-> 1, vin |-> <<"X", "1">>, created_at |-> 1],
                      [id |-> 2, vin |-> <<"Y", "2">>, created_at |-> 2]>>,
       scores |-> <<>>, clock |-> 3] }

Init ==
    /\ db_enabled \in BOOLEAN
    /\ by_id = <<>>
    /\ ids_by_vin = <<>>
    /\ \E seed \in DbSeeds :
          /\ db_enabled \/ seed.clock = 1
          /\ vehicles = seed.vehicles
          /\ listings = seed.listings
          /\ scores = seed.scores
          /\ clock = seed.clock
    /\ lastCall = [op |-> "none", ok |-> TRUE, req |-> <<>>, out |-> <<>>]
    /\ putLog = <<>>
    /\ lastScoreOf = <<>>
    /\ ingestedVins = {}
    /\ calls = 0
    /\ items = 0

\* The batches offered to a handler are those the item bound still allows.
Next ==
    \/ \E batch \in SeqsUpTo(RawListings, MaxItems - items) : Ingest(batch)
    \/ \E batch \in SeqsUpTo(ScoreItems, MaxItems - items) : Score(batch)
    \/ List

Spec == Init /\ [][Next]_vars

(***************************************************************************)
(* Properties.                                                             *)
(***************************************************************************)
\* Canonical form of a VIN as the specification words it: trim, uppercase.
Canon(vin) == Upper(Strip(vin))

\* The steps of the three handlers.
IngestStep == calls' = calls + 1 /\ lastCall'.op = "ingest"
ScoreStep == calls' = calls + 1 /\ lastCall'.op = "score"

\* The stored listings (memory store) indexed under canonical VIN v.
IndexedUnder(v) ==
    {k \in 1..Len(by_id) : by_id[k].id \in Range(IdsOf(ids_by_vin, v))}

\* Item i is the last item of the batch req that writes onto stored listing k:
\* no later item has a VIN under which k is indexed.
LastWriter(req, i, k) ==
    \A j \in (i + 1)..Len(req) : k \notin IndexedUnder(Canon(req[j].vin))

\* C1: memory backend: right after a score call, every stored listing
\* indexed under the canonical VIN of a scored item carries exactly the
\* score, buyMax and reasonCodes returned for that item, whatever the
\* spelling of the VIN in the request (when several items of the batch write
\* onto one listing, the values of the last of them).
C1_ScoreReachesIngested ==
    (~db_enabled /\ lastCall.op = "score") =>
        \A i \in 1..Len(lastCall.req) :
            \A k \in IndexedUnder(Canon(lastCall.req[i].vin)) :
                LastWriter(lastCall.req, i, k) =>
                    /\ by_id[k].score = Some(lastCall.out[i].score)
                    /\ by_id[k].buyMax = Some(lastCall.out[i].buyMax)
                    /\ by_id[k].reasonCodes = lastCall.out[i].reasonCodes

\* C1 witness: a listing ingested as "X1" and scored under the spelling
\* " x1 " carries the returned values.
C1_Witness ==
    /\ ~db_enabled
    /\ lastCall.op = "score"
    /\ \E i \in 1..Len(lastCall.req) :
          /\ lastCall.req[i].vin = <<" ", "x", "1", " ">>
          /\ \E k \in IndexedUnder(<<"X", "1">>) :
                /\ LastWriter(lastCall.req, i, k)
                /\ by_id[k].vin = <<"X", "1">>
                /\ <<by_id[k].vin, by_id[k].id>> \in Range(putLog)
                /\ by_id[k].score = Some(lastCall.out[i].score)
                /\ by_id[k].buyMax = Some(lastCall.out[i].buyMax)

\* The first position in the put history of the pair <<v, id>>.
FirstPut(v, id) ==
    CHOOSE n \in 1..Len(putLog) :
        /\ putLog[n] = <<v, id>>
        /\ \A m \in 1..(n - 1) : putLog[m] # <<v, id>>

\* C4: memory backend: the id list of every canonical VIN holds exactly the
\* ids ever put under that VIN, each once, in the order of their first put.
C4_IndexIsFirstPutOrder ==
    /\ DOMAIN ids_by_vin = {putLog[n][1] : n \in 1..Len(putLog)}
    /\ \A v \in DOMAIN ids_by_vin :
          LET ids == ids_by_vin[v]
          IN  /\ Range(ids) = {putLog[n][2] : n \in {m \in 1..Len(putLog) : putLog[m][1] = v}}
              /\ \A i, j \in 1..Len(ids) : i # j => ids[i] # ids[j]
              /\ \A i, j \in 1..Len(ids) :
                    i < j => FirstPut(v, ids[i]) < FirstPut(v, ids[j])

\* C4 witness: an id put twice under a VIN that holds two ids.
C4_Witness ==
    /\ ~db_enabled
    /\ \E v \in DOMAIN ids_by_vin :
          /\ Len(ids_by_vin[v]) = 2
          /\ \E m, n \in 1..Len(putLog) :
                m < n /\ putLog[m] = putLog[n] /\ putLog[m][1] = v

\* The inputs of the scoring formula as the specification words them, times
\* 300000 (the common denominator of /30, /100000 and of cents / 1000).
\* 40*max(0,30-dom)/30 + 40*max(0,100000-miles)/100000
StatedBase(item) ==
    (IF item.dom < 30 THEN 400000 * (30 - item.dom) ELSE 0)
  + (IF item.miles < 100000 THEN 120 * (100000 - item.miles) ELSE 0)

\* min(20, (25000 - price)/1000) when price < 25000, else 0
StatedBoost(item) ==
    IF item.price < 2500000
    THEN (IF 3 * (2500000 - item.price) < 6000000
          THEN 3 * (2500000 - item.price) ELSE 6000000)
    ELSE 0

\* clamp(base + priceBoost, 0, 100)
StatedTotal(item) ==
    LET t == StatedBase(item) + StatedBoost(item)
    IN  IF t < 0 THEN 0 ELSE IF t > 30000000 THEN 30000000 ELSE t

\* C5 as stated: every returned score is the nearest integer to the total.
C5_ScoreIsNearest ==
    (lastCall.op = "score" /\ lastCall.ok) =>
        \A i \in 1..Len(lastCall.req) :
            LET t == StatedTotal(lastCall.req[i])
                n == lastCall.out[i].score
            IN  2 * (n * 300000 - t) <= 300000 /\ 2 * (t - n * 300000) <= 300000

\* C5 amended: every returned score is the total truncated to its integer
\* part: score <= total < score + 1.
C5_ScoreIsTruncated ==
    (lastCall.op = "score" /\ lastCall.ok) =>
        \A i \in 1..Len(lastCall.req) :
            LET t == StatedTotal(lastCall.req[i])
                n == lastCall.out[i].score
            IN  n * 300000 <= t /\ t < (n + 1) * 300000

\* C5 witness: price 20000, miles 30000, dom 10 has the total 59.67 and is
\* returned the score 59.
C5_Witness ==
    /\ lastCall.op = "score"
    /\ lastCall.ok
    /\ \E i \in 1..Len(lastCall.req) :
          /\ lastCall.req[i].price = 2000000
          /\ lastCall.req[i].miles = 30000
          /\ lastCall.req[i].dom = 10
          /\ 2 * (StatedTotal(lastCall.req[i]) - 59 * 300000) > 300000
          /\ lastCall.out[i].score = 59

\* The score rows the last (successful) score call appended, one per item.
RowOfItem(i) == scores[Len(scores) - Len(lastCall.req) + i]

\* C6: every score a score call returns, writes onto a stored listing or
\* inserts into the scores table is an integer of 0..100, for inputs that
\* include zero, negative and very large price, miles and dom.
C6_ScoreInRange ==
    /\ lastCall.op = "score" =>
          /\ \A i \in 1..Len(lastCall.out) : lastCall.out[i].score \in 0..100
          /\ \A i \in 1..Len(lastCall.req) :
                \A k \in IndexedUnder(Canon(lastCall.req[i].vin)) :
                    /\ ~IsNone(by_id[k].score)
                    /\ Val(by_id[k].score) \in 0..100
    /\ \A n \in 1..Len(scores) : scores[n].score \in 0..100

\* C6 witness: an item whose unclamped total exceeds 100 (negative dom and
\* miles) is returned 100 and a stored listing carries that 100.
C6_Witness ==
    /\ lastCall.op = "score"
    /\ lastCall.ok
    /\ \E i \in 1..Len(lastCall.req) :
          /\ lastCall.req[i].dom < 0
          /\ lastCall.req[i].miles < 0
          /\ StatedBase(lastCall.req[i]) + StatedBoost(lastCall.req[i]) > 30000000
          /\ lastCall.out[i].score = 100
          /\ \E k \in IndexedUnder(Canon(lastCall.req[i].vin)) :
                by_id[k].score = Some(100)

\* The buyMax policy as the specification words it, in cents: bm is
\* price * 0.98 rounded to the cent with AgedInventory last when dom > 45, and
\* max(0, price * 1.03) rounded to the cent without AgedInventory otherwise.
StatedBuyMax(item, bm, codes) ==
    IF item.dom > 45
    THEN /\ 2 * (100 * bm - 98 * item.price) <= 100
         /\ 2 * (98 * item.price - 100 * bm) <= 100
         /\ Len(codes) > 0
         /\ codes[Len(codes)] = "AgedInventory"
    ELSE /\ IF item.price <= 0 THEN bm = 0
            ELSE /\ 2 * (100 * bm - 103 * item.price) <= 100
                 /\ 2 * (103 * item.price - 100 * bm) <= 100
         /\ "AgedInventory" \notin Range(codes)

\* C7: the buyMax and the reason codes a score call returns, writes onto the
\* stored listings of the VIN and inserts into the scores table follow one
\* of the two policies, chosen by dom > 45, never both.
C7_BuyMaxPolicies ==
    (lastCall.op = "score" /\ lastCall.ok) =>
        \A i \in 1..Len(lastCall.req) :
            LET item == lastCall.req[i]
            IN  /\ StatedBuyMax(item, lastCall.out[i].buyMax, lastCall.out[i].reasonCodes)
                /\ \A k \in IndexedUnder(Canon(item.vin)) :
                      LastWriter(lastCall.req, i, k) =>
                          /\ ~IsNone(by_id[k].buyMax)
                          /\ StatedBuyMax(item, Val(by_id[k].buyMax), by_id[k].reasonCodes)
                /\ db_enabled =>
                      StatedBuyMax(item, RowOfItem(i).buy_max, RowOfItem(i).reason_codes)

\* C7 witness: dom 50 and price 10000 return 9800.00 with AgedInventory, and
\* a stored listing carries them.
C7_Witness ==
    /\ lastCall.op = "score"
    /\ lastCall.ok
    /\ \E i \in 1..Len(lastCall.req) :
          /\ lastCall.req[i].dom = 50
          /\ lastCall.req[i].price = 1000000
          /\ lastCall.out[i].buyMax = 980000
          /\ \E k \in IndexedUnder(Canon(lastCall.req[i].vin)) :
                /\ by_id[k].buyMax = Some(980000)
                /\ "AgedInventory" \in Range(by_id[k].reasonCodes)

\* The reason codes as the specification words them: the triggered codes in
\* the fixed order, or the sentinel alone when none is triggered.
StatedReasons(item) ==
    LET Triggered(code) ==
            CASE code = "PriceVsBaseline" -> item.price < 2500000
              [] code = "LowDOM" -> item.dom < 20
              [] code = "LowMiles" -> item.miles < 50000
              [] code = "AgedInventory" -> item.dom > 45
        picked == SelectSeq(<<"PriceVsBaseline", "LowDOM", "LowMiles", "AgedInventory">>,
                            Triggered)
    IN  IF picked = <<>> THEN <<"Heuristic">> ELSE picked

\* C8: the reason codes a score call returns, writes onto the stored listings
\* of the VIN and inserts into the scores table are never empty: the
\* triggered codes in the fixed order, or ["Heuristic"] when none is triggered.
C8_ReasonCodes ==
    (lastCall.op = "score" /\ lastCall.ok) =>
        \A i \in 1..Len(lastCall.req) :
            LET item == lastCall.req[i]
            IN  /\ lastCall.out[i].reasonCodes = StatedReasons(item)
                /\ Len(lastCall.out[i].reasonCodes) > 0
                /\ \A k \in IndexedUnder(Canon(item.vin)) :
                      LastWriter(lastCall.req, i, k) =>
                          by_id[k].reasonCodes = StatedReasons(item)
                /\ db_enabled => RowOfItem(i).reason_codes = StatedReasons(item)

\* C8 witness: an item that triggers no threshold is returned ["Heuristic"]
\* and a stored listing carries it.
C8_Witness ==
    /\ lastCall.op = "score"
    /\ lastCall.ok
    /\ \E i \in 1..Len(lastCall.req) :
          /\ lastCall.req[i].price >= 2500000
          /\ lastCall.req[i].dom >= 20
          /\ lastCall.req[i].dom <= 45
          /\ lastCall.req[i].miles >= 50000
          /\ lastCall.out[i].reasonCodes = <<"Heuristic">>
          /\ \E k \in IndexedUnder(Canon(lastCall.req[i].vin)) :
                by_id[k].reasonCodes = <<"Heuristic">>

\* A well-formed score response for a request item.
ValidResponse(item, resp) ==
    /\ resp.vin = item.vin
    /\ resp.score \in 0..100
    /\ Len(resp.reasonCodes) > 0

\* C2 as stated: a score call whose VINs were never submitted to ingest
\* completes with one valid response per item, changes no stored listing and
\* creates none, under either backend.
C2_ScoreUningestedIsNoOp ==
    [][(/\ ScoreStep
        /\ \A i \in 1..Len(lastCall'.req) :
              Canon(lastCall'.req[i].vin) \notin ingestedVins)
       => /\ lastCall'.ok
          /\ Len(lastCall'.out) = Len(lastCall'.req)
          /\ \A i \in 1..Len(lastCall'.req) :
                ValidResponse(lastCall'.req[i], lastCall'.out[i])
          /\ by_id' = by_id
          /\ listings' = listings
          /\ vehicles' = vehicles]_vars

\* C3 as stated: every listing that list returns carries the result of the
\* latest score call made for its VIN, if there was one, under either backend.
C3_ListShowsLatestScore ==
    lastCall.op = "list" =>
        \A i \in 1..Len(lastCall.out) :
            LET l == lastCall.out[i]
            IN  l.vin \in DOMAIN lastScoreOf =>
                    /\ l.score = Some(lastScoreOf[l.vin].score)
                    /\ l.buyMax = Some(lastScoreOf[l.vin].buyMax)
                    /\ l.reasonCodes = lastScoreOf[l.vin].reasonCodes

\* C9 as stated: every stored listing has score, buyMax and reasonCodes all
\* unset or all set.
C9_ScoreFieldsAllOrNone ==
    \A k \in 1..Len(ListResult) :
        LET l == ListResult[k]
        IN  \/ IsNone(l.score) /\ IsNone(l.buyMax) /\ l.reasonCodes = <<>>
            \/ ~IsNone(l.score) /\ ~IsNone(l.buyMax) /\ l.reasonCodes # <<>>

\* C10 as stated: an ingest call leaves score, buyMax and reasonCodes of
\* every listing stored before it unchanged, also when it re-uses an id.
C10_IngestKeepsScoreFields ==
    [][IngestStep =>
          \A k \in 1..Len(ListResult) :
              \E j \in 1..Len(ListResult') :
                  /\ ListResult'[j].id = ListResult[k].id
                  /\ ListResult'[j].score = ListResult[k].score
                  /\ ListResult'[j].buyMax = ListResult[k].buyMax
                  /\ ListResult'[j].reasonCodes = ListResult[k].reasonCodes]_vars

\* When a listed record was created: in the memory store the position in the
\* put history of the put that stored it (the last put of its id); in the
\* relational store the created_at of its row.
CreatedRank(l) ==
    IF db_enabled
    THEN LET n == CHOOSE m \in 1..Len(listings) : Str(listings[m].id) = l.id
         IN  listings[n].created_at
    ELSE CHOOSE n \in 1..Len(putLog) :
             /\ putLog[n][2] = l.id
             /\ \A m \in (n + 1)..Len(putLog) : putLog[m][2] # l.id

\* C11 as stated: list returns the stored listings newest-created-first, a
\* listing ingested later before every listing ingested earlier, under
\* either backend.
C11_ListNewestFirst ==
    lastCall.op = "list" =>
        \A i, j \in 1..Len(lastCall.out) :
            i < j => CreatedRank(lastCall.out[i]) > CreatedRank(lastCall.out[j])

\* C12 as stated: every listing ingest returns and every listing in the
\* store has a radius > 0: an absent or zero radius became 25, any other
\* input radius is kept as it is and is positive.
C12_RadiusPositive ==
    /\ \A k \in 1..Len(by_id) :
          /\ ~IsNone(by_id[k].radius)
          /\ Val(by_id[k].radius) > 0
    /\ (lastCall.op = "ingest" /\ lastCall.ok) =>
          \A i \in 1..Len(lastCall.req) :
              LET given == lastCall.req[i].radius
                  kept == lastCall.out[i].radius
              IN  /\ ~IsNone(kept)
                  /\ Val(kept) > 0
                  /\ IF IsNone(given) \/ given = Some(0)
                     THEN kept = Some(25)
                     ELSE kept = given

C14_NormalizeIdempotent ==
    lastCall.op = "ingest" =>
        /\ \A i \in 1..Len(lastCall.req) :
              Normalize(Normalize(lastCall.req[i])) = Normalize(lastCall.req[i])
        /\ \A i \in 1..Len(lastCall.out) :
              Normalize(lastCall.out[i]) = lastCall.out[i]

\* C14 witness: ingest returned a listing whose VIN, trim and radius the
\* normalization changed.
C14_Witness ==
    /\ lastCall.op = "ingest"
    /\ lastCall.ok
    /\ \E i \in 1..Len(lastCall.out) :
          /\ lastCall.req[i].vin = <<" ", "x", "1", " ">>
          /\ lastCall.out[i].vin = <<"X", "1">>
          /\ lastCall.req[i].trim # lastCall.out[i].trim
          /\ lastCall.req[i].radius = Some(0)
          /\ lastCall.out[i].radius = Some(25)

(***************************************************************************)
(* Two processes of the program, one per backend, both starting with empty *)
(* stores and given the same requests.  by_id, ids_by_vin and lastCall.out *)
(* are those of the in-memory process (_db_enabled false, database tables  *)
(* untouched); vehicles, listings, scores and lastCall.outDb are those of  *)
(* the relational process (_db_enabled true, its own _by_id empty).        *)
(***************************************************************************)
PairInit ==
    /\ db_enabled = FALSE
    /\ by_id = <<>>
    /\ ids_by_vin = <<>>
    /\ vehicles = <<>>
    /\ listings = <<>>
    /\ scores = <<>>
    /\ clock = 1
    /\ lastCall = [op |-> "none", ok |-> TRUE, req |-> <<>>, out |-> <<>>,
                   okDb |-> TRUE, outDb |-> <<>>]
    /\ putLog = <<>>
    /\ lastScoreOf = <<>>
    /\ ingestedVins = {}
    /\ calls = 0
    /\ items = 0

PairIngest(batch) ==
    /\ calls < MaxCalls
    /\ calls' = calls + 1
    /\ items' = items + Len(batch)
    /\ LET m == MemIngest([by_id |-> by_id, ids_by_vin |-> ids_by_vin,
                           putLog |-> putLog, out |-> <<>>], batch, 1)
           d == DbIngest([vehicles |-> vehicles, listings |-> listings,
                          clock |-> clock, ok |-> TRUE, out |-> <<>>], batch, 1)
       IN  /\ by_id' = m.by_id
           /\ ids_by_vin' = m.ids_by_vin
           /\ putLog' = m.putLog
           /\ vehicles' = d.vehicles
           /\ listings' = d.listings
           /\ clock' = d.clock
           /\ lastCall' = [op |-> "ingest", ok |-> TRUE, req |-> batch, out |-> m.out,
                           okDb |-> d.ok, outDb |-> d.out]
    /\ ingestedVins' = ingestedVins \cup {VinKey(batch[i].vin) : i \in 1..Len(batch)}
    /\ UNCHANGED <<db_enabled, scores, lastScoreOf>>

PairScore(batch) ==
    /\ calls < MaxCalls
    /\ calls' = calls + 1
    /\ items' = items + Len(batch)
    /\ LET m == ScoreLoopIn(FALSE,
                            [by_id |-> by_id, scores |-> <<>>, clock |-> clock,
                             lastScoreOf |-> lastScoreOf, ok |-> TRUE, out |-> <<>>],
                            batch, 1)
           d == ScoreLoopIn(TRUE,
                            [by_id |-> <<>>, scores |-> scores, clock |-> clock,
                             lastScoreOf |-> lastScoreOf, ok |-> TRUE, out |-> <<>>],
                            batch, 1)
       IN  /\ by_id' = m.by_id
           /\ lastScoreOf' = m.lastScoreOf
           /\ scores' = d.scores
           /\ clock' = d.clock
           /\ lastCall' = [op |-> "score", ok |-> m.ok, req |-> batch, out |-> m.out,
                           okDb |-> d.ok, outDb |-> d.out]
    /\ UNCHANGED <<db_enabled, ids_by_vin, vehicles, listings, putLog, ingestedVins>>

PairList ==
    /\ calls < MaxCalls
    /\ calls' = calls + 1
    /\ lastCall' = [op |-> "list", ok |-> TRUE, req |-> <<>>, out |-> ListResultIn(FALSE),
                    okDb |-> TRUE, outDb |-> ListResultIn(TRUE)]
    /\ UNCHANGED <<db_enabled, by_id, ids_by_vin, vehicles, listings, scores, clock,
                   putLog, lastScoreOf, ingestedVins, items>>

PairNext ==
    \/ \E batch \in SeqsUpTo(RawListings, MaxItems - items) : PairIngest(batch)
    \/ \E batch \in SeqsUpTo(ScoreItems, MaxItems - items) : PairScore(batch)
    \/ PairList

SpecPair == PairInit /\ [][PairNext]_vars

\* What C15 compares of a listed record.
Compared(l) ==
    [vin |-> l.vin, radius |-> l.radius, score |-> l.score, buyMax |-> l.buyMax,
     reasonCodes |-> l.reasonCodes]

\* How many records of a list compare as c.
Copies(list, c) == Cardinality({i \in 1..Len(list) : Compared(list[i]) = c})

\* C15 as stated: given the same ingest and score calls, list returns under
\* both backends the same number of listings, with the same VIN, radius,
\* score, buyMax and reasonCodes.
C15_BackendsAgree ==
    lastCall.op = "list" =>
        /\ Len(lastCall.out) = Len(lastCall.outDb)
        /\ \A i \in 1..Len(lastCall.out) :
              Copies(lastCall.out, Compared(lastCall.out[i]))
                  = Copies(lastCall.outDb, Compared(lastCall.out[i]))

(***************************************************************************)
(* A relational process started on a database that already holds more rows *)
(* of listings than the list query returns.                                *)
(***************************************************************************)
ManyRows == 501

\* Rows written before: ids are serial; created_at grows with the id, except
\* for the first row, which carries the latest created_at of all.
ManySeed ==
    [vehicles |-> [v \in {<<"X", "1">>, <<"Y", "2">>} |->
                      [make |-> <<"F">>, model |-> <<"M">>, trim |-> None]],
     listings |-> [i \in 1..ManyRows |->
                      [id |-> i,
                       vin |-> IF i % 2 = 0 THEN <<"X", "1">> ELSE <<"Y", "2">>,
                       created_at |-> IF i = 1 THEN ManyRows + 1 ELSE i]],
     scores |-> <<>>,
     clock |-> ManyRows + 2]

InitMany ==
    /\ db_enabled = TRUE
    /\ by_id = <<>>
    /\ ids_by_vin = <<>>
    /\ vehicles = ManySeed.vehicles
    /\ listings = ManySeed.listings
    /\ scores = ManySeed.scores
    /\ clock = ManySeed.clock
    /\ lastCall = [op |-> "none", ok |-> TRUE, req |-> <<>>, out |-> <<>>]
    /\ putLog = <<>>
    /\ lastScoreOf = <<>>
    /\ ingestedVins = {}
    /\ calls = 0
    /\ items = 0

\* The handlers, each called with one item.
NextMany ==
    \/ \E l \in RawListings : Ingest(<<l>>)
    \/ \E q \in ScoreItems : Score(<<q>>)
    \/ List

SpecMany == InitMany /\ [][NextMany]_vars

\* The rows of listings that a list result shows.
Shown(out) ==
    LET outIds == {out[i].id : i \in 1..Len(out)}
    IN  {k \in 1..Len(listings) : Str(listings[k].id) \in outIds}

\* C16: relational backend: list never returns more than 500 listings; each
\* returned listing is a different row; and when more than 500 rows exist it
\* returns 500, none of them created before a row it leaves out.
C16_ListAtMost500Newest ==
    (db_enabled /\ lastCall.op = "list") =>
        LET out == lastCall.out
            shown == Shown(out)
        IN  /\ Len(out) <= ListLimit
            /\ Cardinality(shown) = Len(out)
            /\ Len(listings) > ListLimit =>
                  /\ Len(out) = ListLimit
                  /\ \A k \in shown : \A j \in (1..Len(listings)) \ shown :
                        listings[j].created_at <= listings[k].created_at

\* A list call on more than 500 rows returned 500 and left the oldest out.
C16_Witness ==
    /\ db_enabled
    /\ lastCall.op = "list"
    /\ Len(listings) > ListLimit
    /\ Len(lastCall.out) = ListLimit
    /\ \E j \in (1..Len(listings)) \ Shown(lastCall.out) :
          \A k \in 1..Len(listings) : listings[j].created_at <= listings[k].created_at


\* C17 as stated: memory backend: a score call changes only stored listings
\* whose stored VIN is the canonical VIN of an item of the call; every other
\* stored listing is left as it was.
C17_ScoreChangesOnlyItsVin ==
    [][(ScoreStep /\ ~db_enabled) =>
          /\ Len(by_id') = Len(by_id)
          /\ \A k \in 1..Len(by_id) :
                by_id'[k] # by_id[k] =>
                    \E i \in 1..Len(lastCall'.req) :
                        by_id[k].vin = Canon(lastCall'.req[i].vin)]_vars

\* C18 as stated: memory backend, in every state: each id listed in
\* _ids_by_vin[V] is a key of _by_id whose listing has vin = V, and each
\* listing of _by_id is in the index under its own VIN and under no other.
C18_IndexConsistent ==
    ~db_enabled =>
        /\ \A v \in DOMAIN ids_by_vin :
              \A n \in 1..Len(ids_by_vin[v]) :
                  \E k \in 1..Len(by_id) :
                      by_id[k].id = ids_by_vin[v][n] /\ by_id[k].vin = v
        /\ \A k \in 1..Len(by_id) :
              \A v \in DOMAIN ids_by_vin \cup {by_id[k].vin} :
                  by_id[k].id \in Range(IdsOf(ids_by_vin, v)) <=> v = by_id[k].vin


\* C19: when the relational backend is selected, the in-memory listing map
\* and the VIN index are empty in every state, no listing was ever put into
\* them, and what list returned has one entry per fetched row of the listings
\* table (none from memory).
C19_MemoryUnusedWhenRelational ==
    db_enabled =>
        /\ by_id = <<>>
        /\ ids_by_vin = <<>>
        /\ putLog = <<>>
        /\ lastCall.op = "list" =>
              Len(lastCall.out) = Min2(ListLimit, Len(listings))

\* C19 witness: relational backend: after an ingest call, a score call for an
\* ingested VIN succeeded (its in-memory loop ran) and memory is still empty.
C19_Witness ==
    /\ db_enabled
    /\ lastCall.op = "score"
    /\ lastCall.ok
    /\ Len(lastCall.req) > 0
    /\ \A i \in 1..Len(lastCall.req) : VinKey(lastCall.req[i].vin) \in ingestedVins
    /\ Len(scores) > 0
    /\ by_id = <<>>
    /\ ids_by_vin = <<>>

====
